---- MODULE Spec2Model ----
(***************************************************************************)
(* Map view of the Fraterna client (src/src/pages/MapView.tsx): the        *)
(* realtime refresh coordinator (fetchBrothers / scheduleFetchBrothers),   *)
(* the privacy filter applied to every fetch result, the marker diff and   *)
(* the proximity alerts, together with the backend rows they read.         *)
(*                                                                         *)
(* One viewer (the signed-in user of this client) and the other members    *)
(* (Owners).  JavaScript is single threaded: every action below is one     *)
(* run-to-completion callback (an effect, a timer callback, a realtime     *)
(* event, the continuation after an await).  A React state update, the     *)
(* re-render it causes and the effects of that render are part of the      *)
(* action that makes the update.                                           *)
(***************************************************************************)
EXTENDS Integers, FiniteSets, Sequences, TLC

\* ---------------------------------------------------------------------
\* Bounds of the model
\* ---------------------------------------------------------------------
\* per run of the refresh coordinator on its own
CoordNotifs == 3        \* realtime change notifications delivered
CoordFaults == 3        \* queries that fail
\* per run of the proximity alerts
ProxFaults == 2
ProxUpdates == 2        \* updateMyLocation calls
ProxTicks == 2          \* clock advances
\* per run of the proximity alerts with a realtime refresh
RecheckNotifs == 1
RecheckFaults == 2
RecheckUpdates == 2
RecheckTicks == 2
\* per run of the privacy filter over every backend content
VisNotifs == 1
VisFaults == 3
\* per run of the fetches against a backend that members edit
EditNotifs == 1
EditFaults == 2
EditWorld == 1          \* edits other members make to the backend
\* per run of the alerts for a friend who is near
NearNotifs == 1
NearFaults == 1
NearUpdates == 2
NearTicks == 1
\* per run of the location publisher over the device's accuracy readings
PublishFaults == 1
PublishUpdates == 2
\* per run of repeated proximity checks with a known position
AlertFaults == 1
AlertUpdates == 3
AlertTicks == 2
\* per run of the stealth switch of a viewer whose tracking is disabled
TrackOffToggles == 2
TrackOffFaults == 1
TrackOffUpdates == 1
\* per run of the navigation bar next to a map view
NavNotifs == 1
NavFaults == 1
NavUpdates == 1
NavStored == 1          \* highest count an earlier session left stored
\* per run of the Friends pages
FriendOps == 4          \* handler calls (clicks) of the two members
\* per run of the verification quiz
VerifRuns == 4          \* quiz runs that end below the pass mark
VerifFaults == 1        \* queries that fail
\* per run of the viewer's own stealth switch
StealthToggles == 2     \* clicks on the stealth button
StealthFaults == 1
StealthUpdates == 2

\* ---------------------------------------------------------------------
\* Users and backend values
\* ---------------------------------------------------------------------
Viewer == "v"
Owners == {"o1", "o2"}
Users == Owners \cup {Viewer}

\* location_visibility_mode as stored: one of the three modes, or absent
\* (the column is optional in BrotherLocation.profile)
RawModes == {"public", "friends", "friends_selected", "unset"}
FriendStatus == {"pending", "accepted", "blocked"}

\* a friendships row between the viewer and an owner, in either direction
FriendRows ==
  [requester_id : {Viewer}, addressee_id : Owners, status : FriendStatus]
  \cup [requester_id : Owners, addressee_id : {Viewer}, status : FriendStatus]

\* positions are kilometres along one meridian; the viewer's position is
\* absent (myLat == null) until the first successful geolocation read
NoPos == -1
ViewerPositions == {2, 4}
\* proximity_radius_km when it is not a number
NoRadius == -1
RadiusChoices == {NoRadius, 0, 5}
\* Date.now() at the start of a run and the amounts the clock advances by
StartTime == 2000000000
TickSteps == {60000}
COOLDOWN_MS == 2 * 60 * 1000
DefaultRadiusKm == 5

\* position.coords.accuracy as the device reports it, in half metres (a
\* double in the code): readings below, at and above either end of the
\* stored range, whole and half way between two whole numbers
DeviceAccuracies == {0, 101, 199, 200, 201, 301, 400, 599, 600, 601, 4000}
\* the reading of the runs that do not look at the accuracy: 65 m
UsualAccuracy == {130}

ProfileRows == [stealth_mode : BOOLEAN, tracking_enabled : BOOLEAN,
                location_visibility_mode : RawModes]

VARIABLES
  \* ---- backend tables ----
  profiles,        \* profiles row of every owner (the joined columns)
  friendships,     \* set of friendships rows that involve the viewer
  allowlist,       \* owners with a location_allowlist row (owner, viewer)
  locations,       \* lat/lng of every owner's locations row (km on a line)
  myRow,           \* the viewer's own profiles row
  \* ---- MapView refs and state ----
  phase,           \* "init" (rendered, effects not run), "mounted", "unmounted"
  isFetching,      \* isFetchingRef.current
  pendingFetch,    \* pendingFetchRef.current
  timers,          \* number of debounce timeouts armed and not yet fired
  fetches,         \* fetchBrothers calls suspended at an await
  brothers,        \* brothers state: the records that passed the filter
  brotherMarkersById, \* brotherMarkersByIdRef.current: per owner the marker
                   \* object (named by the fetch whose result made it)
  settings,        \* the viewer's profile: proximity radius and alerts switch
  myPos,           \* myLat / myLng state
  lastNotified,    \* lastNotifiedRef.current (0: no entry)
  isUpdatingLocation,
  upds,            \* updateMyLocation calls suspended at a callback or await
  intervalSnap,    \* state captured by the 30 s interval's callback
  mountTimer,      \* the 800 ms timeout of the last effect is armed
  now,             \* Date.now()
  myProfile,       \* profile of useAuth: the viewer's row as last loaded
  stealthMode,     \* stealthMode state
  toggles,         \* toggleStealthMode calls suspended at an await
  lateTimers,      \* armed 800 ms timeouts that nothing clears (lines 604, 655)
  mountSnap,       \* state captured by the 800 ms timeout of the last effect
  togglesStarted,  \* number of toggleStealthMode calls so far
  lastUpsert,      \* the payload of the last locations upsert sent
  upsertsSent,     \* number of locations upserts sent so far
  \* ---- history ----
  fetchesStarted,  \* number of query sequences started so far
  notifCount,      \* number of change notifications delivered so far
  worldChanges,    \* number of backend edits made so far
  faults,          \* number of failed queries so far
  lim,             \* how many of each the run may have
  needFetch,       \* a notification arrived and no fetch has started since
  scen,            \* scenario being followed: "none", "burst", "inflight", "void"
  scenN,           \* notifications counted in the scenario
  scenBase,        \* fetchesStarted when the scenario began
  scenPend,        \* the debounce timer fired while the scenario's fetch was in flight
  lastFetch,       \* what the last completed fetch saw
  alerts,          \* every alert toast shown so far: candidate and time
  lastCheck,       \* the last run of checkProximityAlerts
  updatesStarted,  \* number of updateMyLocation calls so far
  ticks,           \* number of clock advances so far
  stealthHist,     \* per owner: since which fetch stealth is on, and whether a
                   \* fetch started after that has completed / succeeded
  wasShown,        \* owners that have been in brothers at some time
  \* ---- BottomNav and the localStorage entry it reads ----
  nearbyStored,    \* localStorage fraterna_nearby_brothers_count
  emergencyAvailable, \* BottomNav state: the Emergency entry is shown
  emergencyCount,  \* BottomNav state: the badge of the entry
  \* ---- the friendships table and the Friends pages of two members ----
  friendRows,      \* friendships rows, each with its id
  rowsMade,        \* number of rows inserted so far (the next id)
  pageRows,        \* per member: the rows their page last fetched
  sends,           \* sendRequest calls suspended at an await
  told,            \* per member: the last toast of a handler
  lastOp,          \* the last handler that reached the table
  friendOps,       \* handler calls so far
  \* ---- the verification quiz and the verification_attempts row ----
  attemptRow,      \* the member's verification_attempts row
  verifStatus,     \* profiles.verification_status of the member
  tabs,            \* per open Verification page: its state
  failedRuns,      \* quiz runs that ended below the pass mark
  verifFaults      \* queries of the verification pages that failed

backend == <<profiles, friendships, allowlist, locations, myRow>>
coord == <<isFetching, pendingFetch, timers, fetches>>
view == <<brothers, brotherMarkersById>>
prox == <<lastNotified, alerts, lastCheck>>
pub == <<lastUpsert, upsertsSent>>
stl == <<myProfile, stealthMode, toggles, lateTimers, mountSnap,
         togglesStarted>>
locn == <<myPos, isUpdatingLocation, upds, intervalSnap, mountTimer,
          updatesStarted, pub, stl>>
clock == <<now, ticks>>
nav == <<nearbyStored, emergencyAvailable, emergencyCount>>
social == <<friendRows, rowsMade, pageRows, sends, told, lastOp, friendOps>>
verif == <<attemptRow, verifStatus, tabs, failedRuns, verifFaults>>
pages == <<social, verif>>
visHist == <<stealthHist, wasShown>>
hist == <<fetchesStarted, notifCount, worldChanges, needFetch,
          scen, scenN, scenBase, scenPend, lastFetch, lim, visHist>>
vars == <<profiles, friendships, allowlist, locations, phase,
          isFetching, pendingFetch, timers, fetches, brothers,
          brotherMarkersById,
          settings, myPos, lastNotified, isUpdatingLocation, upds,
          intervalSnap, mountTimer, now, lastUpsert, upsertsSent,
          myRow, myProfile, stealthMode, toggles, lateTimers, mountSnap,
          togglesStarted,
          fetchesStarted, notifCount, worldChanges, faults, lim, needFetch,
          scen, scenN, scenBase, scenPend, lastFetch,
          alerts, lastCheck, updatesStarted, ticks, stealthHist, wasShown,
          nearbyStored, emergencyAvailable, emergencyCount,
          friendRows, rowsMade, pageRows, sends, told, lastOp, friendOps,
          attemptRow, verifStatus, tabs, failedRuns, verifFaults>>

\* ---------------------------------------------------------------------
\* Pure helpers of MapView.tsx
\* ---------------------------------------------------------------------
normalizeVisibilityMode(v) ==
  IF v \in {"public", "friends", "friends_selected"} THEN v ELSE "friends"

\* rows returned by .or(requester_id.eq.V, addressee_id.eq.V).eq(status, accepted)
AcceptedRowsOf(viewerId) ==
  {r \in friendships :
     /\ (r.requester_id = viewerId \/ r.addressee_id = viewerId)
     /\ r.status = "accepted"}

\* the loop with only its first test: rows the viewer requested
FriendsFromRowsOneWay(rows, viewerId) ==
  {r.addressee_id : r \in {x \in rows : x.requester_id = viewerId}}

\* the loop that fills the friends set from the returned rows
FriendsFromRows(rows, viewerId) ==
  {r.addressee_id : r \in {x \in rows : x.requester_id = viewerId}}
  \cup {r.requester_id : r \in {x \in rows : x.addressee_id = viewerId}}

\* rows returned by location_allowlist .eq(viewer_id, V), owner_id collected
AllowlistedFor(viewerId) == IF viewerId = Viewer THEN allowlist ELSE {}

\* rows returned by the locations query: every row but the viewer's, joined
\* with the owner's profile
LocationsQueryRows(viewerId) ==
  {[user_id |-> o, lat |-> locations[o], profile |-> profiles[o]] :
     o \in Owners \ {viewerId}}

\* the filter taking an empty friends set or allowlist for "not loaded"
\* and showing the candidate
privacyFilterFailOpen(b, friends, allowlisted) ==
  LET p == b.profile
      mode == normalizeVisibilityMode(p.location_visibility_mode)
  IN  IF p.stealth_mode THEN FALSE
      ELSE IF p.tracking_enabled = FALSE THEN FALSE
      ELSE IF mode = "public" THEN TRUE
      ELSE IF mode = "friends" THEN friends = {} \/ b.user_id \in friends
      ELSE allowlisted = {} \/ b.user_id \in allowlisted

\* the filter without its stealth test
privacyFilterNoStealth(b, friends, allowlisted) ==
  LET p == b.profile
      mode == normalizeVisibilityMode(p.location_visibility_mode)
  IN  IF p.tracking_enabled = FALSE THEN FALSE
      ELSE IF mode = "public" THEN TRUE
      ELSE IF mode = "friends" THEN b.user_id \in friends
      ELSE b.user_id \in allowlisted

\* the privacy filter of fetchBrothers
privacyFilter(b, friends, allowlisted) ==
  LET p == b.profile
      mode == normalizeVisibilityMode(p.location_visibility_mode)
  IN  IF p.stealth_mode THEN FALSE
      ELSE IF p.tracking_enabled = FALSE THEN FALSE
      ELSE IF mode = "public" THEN TRUE
      ELSE IF mode = "friends" THEN b.user_id \in friends
      ELSE b.user_id \in allowlisted

\* the marker diff effect: the ids that have a marker after it ran
markerDiff(list) == {b.user_id : b \in {x \in list : ~x.profile.stealth_mode}}

\* no entry in brotherMarkersByIdRef.current
NoMarker == 0

\* the keys of brotherMarkersByIdRef.current
markers == {o \in Owners : brotherMarkersById[o] # NoMarker}

\* the effect removing every marker and making one for each id of the list
applyMarkerDiffRebuild(cur, list, n) ==
  [o \in Owners |-> IF o \in markerDiff(list) THEN n ELSE NoMarker]

\* the marker diff effect run for list by the render that follows the
\* result of fetch n: an id of the list keeps the marker it has (moved by
\* setLngLat) or gets a new one, every other marker is removed
applyMarkerDiff(cur, list, n) ==
  [o \in Owners |->
     IF o \in markerDiff(list)
     THEN IF cur[o] # NoMarker THEN cur[o] ELSE n
     ELSE NoMarker]

\* haversineDistance restricted to points of one meridian, in whole km
haversineDistance(a, b) == IF a >= b THEN a - b ELSE b - a

\* the radius checkProximityAlerts and nearbyBrothersCount work with
radiusKmOf(p) == IF p.proximity_radius_km # NoRadius
                 THEN p.proximity_radius_km ELSE DefaultRadiusKm

\* checkProximityAlerts without the radiusKm === 0 return
alertedByNoZeroReturn(list, p, pos, last, t) ==
  IF p.proximity_alerts_enabled = FALSE THEN {}
  ELSE IF pos = NoPos THEN {}
  ELSE {b.user_id : b \in
          {x \in list :
             /\ ~x.profile.stealth_mode
             /\ haversineDistance(pos, x.lat) <= radiusKmOf(p)
             /\ t - last[x.user_id] >= COOLDOWN_MS}}

\* checkProximityAlerts without the myLat == null return: arithmetic on
\* null takes it for 0
alertedByNoPosReturn(list, p, pos, last, t) ==
  IF p.proximity_alerts_enabled = FALSE THEN {}
  ELSE IF radiusKmOf(p) = 0 THEN {}
  ELSE {b.user_id : b \in
          {x \in list :
             /\ ~x.profile.stealth_mode
             /\ haversineDistance(IF pos = NoPos THEN 0 ELSE pos, x.lat)
                  <= radiusKmOf(p)
             /\ t - last[x.user_id] >= COOLDOWN_MS}}

\* checkProximityAlerts without the cooldown test
alertedByNoCooldown(list, p, pos, last, t) ==
  IF p.proximity_alerts_enabled = FALSE THEN {}
  ELSE IF radiusKmOf(p) = 0 THEN {}
  ELSE IF pos = NoPos THEN {}
  ELSE {b.user_id : b \in
          {x \in list :
             /\ ~x.profile.stealth_mode
             /\ haversineDistance(pos, x.lat) <= radiusKmOf(p)}}

\* checkProximityAlerts: the candidates of list an alert is shown for, by
\* a closure that captured profile p and viewer position pos, at time t
\* with last as lastNotifiedRef.current
alertedBy(list, p, pos, last, t) ==
  IF p.proximity_alerts_enabled = FALSE THEN {}
  ELSE IF radiusKmOf(p) = 0 THEN {}
  ELSE IF pos = NoPos THEN {}
  ELSE {b.user_id : b \in
          {x \in list :
             /\ ~x.profile.stealth_mode
             /\ haversineDistance(pos, x.lat) <= radiusKmOf(p)
             /\ t - last[x.user_id] >= COOLDOWN_MS}}

\* nearbyBrothersCount of a render with brothers list and position pos
nearbyCount(list, pos) ==
  IF pos = NoPos THEN 0
  ELSE IF radiusKmOf(settings) = 0 THEN 0
  ELSE Cardinality({b \in list :
                      /\ ~b.profile.stealth_mode
                      /\ haversineDistance(pos, b.lat) <= radiusKmOf(settings)})

\* nearbyBrothersCount of the current render
nearbyBrothersCount == nearbyCount(brothers, myPos)

\* the effect of lines 256-262: a render whose nearbyBrothersCount is n
\* stores it for BottomNav
storeNearby(n) ==
  nearbyStored' = IF phase = "mounted" THEN n ELSE nearbyStored

\* Math.round of a reading given in half metres: the nearest whole number
\* of metres, a half rounding up
MathRound(h) == (h + 1) \div 2

Min(a, b) == IF a <= b THEN a ELSE b
Max(a, b) == IF a >= b THEN a ELSE b

\* the clamp without its lower end
clampedAccuracyNoFloor(h) == Min(300, MathRound(h))

\* the clamp without its upper end
clampedAccuracyNoCeiling(h) == Max(100, MathRound(h))

\* clampedAccuracy = Math.max(100, Math.min(300, Math.round(accuracy)))
clampedAccuracy(h) == Max(100, Min(300, MathRound(h)))

\* the row updateMyLocation upserts for a read of latitude p with accuracy
\* h: the coordinates as read, the accuracy clamped
upsertPayload(p, h) ==
  [lat |-> p, accuracy_meters |-> clampedAccuracy(h)]

\* what the functions of the first render captured: no position, no brothers
FirstRender == [myPos |-> NoPos, brothers |-> {}]

\* setTimeout without the clearTimeout before it
armDebounceNoClear(n) == n + 1

\* clearTimeout(fetchDebounceTimerRef.current) followed by setTimeout: the
\* ref always names the newest timeout, so none older survives
armDebounce(n) == 1

\* fetchBrothers without the single-flight test
mayStartFetchAlways(fetching) == TRUE

\* the single-flight test at the top of fetchBrothers
mayStartFetch(fetching) == ~fetching

\* ---------------------------------------------------------------------
\* Initial states
\* ---------------------------------------------------------------------
NoFetchSeen == [ok |-> FALSE, friendsFailed |-> FALSE, allowFailed |-> FALSE,
                raw |-> {}, rows |-> {}, allow |-> {}, n |-> 0]

NoUpsert == [sent |-> FALSE]

\* the viewer's row when they share their location
ViewerShares == [stealth_mode |-> FALSE, tracking_enabled |-> TRUE]

NoCheck == [src |-> "none", pos |-> NoPos, near |-> {}, due |-> {},
            emitted |-> {}]

Settings == [proximity_radius_km : RadiusChoices,
             proximity_alerts_enabled : BOOLEAN]

OneRowPerPair(S) ==
  \A o \in Owners :
    Cardinality({r \in S : r.requester_id = o \/ r.addressee_id = o}) <= 1

\* the state of a MapView before its first effects run
InitView ==
  /\ phase = "init"
  /\ isFetching = FALSE
  /\ pendingFetch = FALSE
  /\ timers = 0
  /\ fetches = {}
  /\ brothers = {}
  /\ brotherMarkersById = [o \in Owners |-> NoMarker]
  /\ fetchesStarted = 0
  /\ notifCount = 0
  /\ worldChanges = 0
  /\ faults = 0
  /\ needFetch = FALSE
  /\ scen = "none"
  /\ scenN = 0
  /\ scenBase = 0
  /\ scenPend = FALSE
  /\ lastFetch = NoFetchSeen
  /\ myPos = NoPos
  /\ lastNotified = [o \in Owners |-> 0]
  /\ isUpdatingLocation = FALSE
  /\ upds = {}
  /\ intervalSnap = FirstRender
  /\ mountTimer = FALSE
  /\ now = StartTime
  /\ lastUpsert = NoUpsert
  /\ upsertsSent = 0
  /\ stealthMode = FALSE
  /\ toggles = {}
  /\ lateTimers = <<>>
  /\ mountSnap = FirstRender
  /\ togglesStarted = 0
  /\ alerts = {}
  /\ lastCheck = NoCheck
  /\ updatesStarted = 0
  /\ ticks = 0
  /\ wasShown = {}
  /\ emergencyAvailable = FALSE
  /\ emergencyCount = 0

\* the members of the Friends pages modelled: the viewer and one other
FriendUsers == {Viewer, "o1"}

\* an empty friendships table and Friends pages that fetched nothing yet
InitSocial ==
  /\ friendRows = {}
  /\ rowsMade = 0
  /\ pageRows = [u \in FriendUsers |-> {}]
  /\ sends = {}
  /\ told = [u \in FriendUsers |-> "none"]
  /\ lastOp = [kind |-> "none"]
  /\ friendOps = 0

\* the Verification pages a member has open (two browser tabs or devices)
VerifTabs == {1, 2}
maxAttempts == 3
NoAttempts == [loaded |-> FALSE]

\* the row the signup trigger made (attempt_count 0, no lock), a profile
\* pending verification and pages that have not loaded anything yet
InitVerif ==
  /\ attemptRow = [attempt_count |-> 0, locked |-> FALSE]
  /\ verifStatus = "pending"
  /\ tabs = [t \in VerifTabs |->
               [pc |-> "loading", attempts |-> NoAttempts,
                localBlocked |-> FALSE, newAttemptCount |-> 0]]
  /\ failedRuns = 0
  /\ verifFaults = 0

\* a client whose localStorage holds no nearby count above 0
InitClient == InitView /\ nearbyStored = 0 /\ InitSocial /\ InitVerif

\* a fixed backend: o1 public, o2 shares with friends and is an accepted friend
FixedBackend ==
  /\ stealthHist = [o \in Owners |-> [since |-> -1, done |-> FALSE,
                                       gone |-> FALSE]]
  /\ profiles = [o \in Owners |->
                   [stealth_mode |-> FALSE, tracking_enabled |-> TRUE,
                    location_visibility_mode |->
                      IF o = "o1" THEN "public" ELSE "friends"]]
  /\ friendships = {[requester_id |-> "o2", addressee_id |-> Viewer,
                     status |-> "accepted"]}
  /\ allowlist = {}
  /\ locations = [o \in Owners |-> IF o = "o1" THEN 2 ELSE 9]
  /\ myRow = ViewerShares
  /\ myProfile = myRow

\* a backend in which the accepted friend o2, who shares with friends, is
\* 3 km along the meridian: 1 km from either position the viewer can take
NearBackend ==
  /\ stealthHist = [o \in Owners |-> [since |-> -1, done |-> FALSE,
                                       gone |-> FALSE]]
  /\ profiles = [o \in Owners |->
                   [stealth_mode |-> FALSE, tracking_enabled |-> TRUE,
                    location_visibility_mode |->
                      IF o = "o1" THEN "public" ELSE "friends"]]
  /\ friendships = {[requester_id |-> "o2", addressee_id |-> Viewer,
                     status |-> "accepted"]}
  /\ allowlist = {}
  /\ locations = [o \in Owners |-> IF o = "o1" THEN 9 ELSE 3]
  /\ myRow = ViewerShares
  /\ myProfile = myRow

InitCoord ==
  /\ InitClient
  /\ FixedBackend
  /\ settings = [proximity_radius_km |-> NoRadius,
                 proximity_alerts_enabled |-> TRUE]
  /\ lim = [notifs |-> CoordNotifs, faults |-> CoordFaults, updates |-> 0,
            ticks |-> 0, world |-> 0,
            toggles |-> 0,
            accs |-> UsualAccuracy]

\* ---------------------------------------------------------------------
\* Refresh coordinator
\* ---------------------------------------------------------------------
Quiescent == ~isFetching /\ timers = 0 /\ ~pendingFetch /\ fetches = {}

\* scheduleFetchBrothers
scheduleFetchBrothers == timers' = armDebounce(timers)

\* fetchBrothers up to its first await
fetchBrothers ==
  IF ~mayStartFetch(isFetching)
  THEN /\ pendingFetch' = TRUE
       /\ UNCHANGED <<isFetching, fetches, fetchesStarted, needFetch>>
  ELSE /\ isFetching' = TRUE
       /\ fetches' = fetches \cup
            {[id |-> fetchesStarted + 1, pc |-> "friends",
              friends |-> {}, allowlisted |-> {},
              friendsFailed |-> TRUE, allowFailed |-> TRUE,
              rows |-> {}, allowRows |-> {}]}
       /\ fetchesStarted' = fetchesStarted + 1
       /\ needFetch' = FALSE
       /\ UNCHANGED pendingFetch

\* BottomNav's syncFromLocal: readNearbyCount, then the two setters
syncFromLocal ==
  /\ emergencyCount' = nearbyStored
  /\ emergencyAvailable' = (nearbyStored > 0)

\* the 1500 ms interval of BottomNav, or its effect on a route change,
\* on whichever page shows the navigation bar
NavPoll ==
  /\ syncFromLocal
  /\ UNCHANGED <<backend, phase, coord, view, settings, pages, prox, locn, clock,
                 hist, faults, nearbyStored>>

\* the effects of the first render: the first fetch and the realtime
\* subscription (lines 375-390), the 800 ms timeout (lines 623-632) and the
\* 30 s interval (lines 609-621)
MountEffect ==
  /\ phase = "init"
  /\ phase' = "mounted"
  /\ fetchBrothers
  /\ stealthMode' = myProfile.stealth_mode
  /\ mountTimer' = (~myProfile.stealth_mode /\ myProfile.tracking_enabled)
  /\ intervalSnap' = FirstRender
  \* the effects of BottomNav, a child of this view, run first: its
  \* first sync reads the stored count, then the effect of lines 256-262
  \* stores the count of the first render
  /\ syncFromLocal
  /\ nearbyStored' = nearbyCount(FirstRender.brothers, FirstRender.myPos)
  /\ UNCHANGED <<backend, timers, view, settings, pages, prox, clock, myPos,
                 isUpdatingLocation, upds, updatesStarted, pub,
                 myProfile, toggles, lateTimers, mountSnap, togglesStarted,
                 notifCount, worldChanges, faults, lim, visHist,
                 scen, scenN, scenBase, scenPend, lastFetch>>

\* a postgres_changes event on the locations table
Notify ==
  /\ phase = "mounted"
  /\ notifCount < lim.notifs
  /\ notifCount' = notifCount + 1
  /\ scheduleFetchBrothers
  /\ needFetch' = TRUE
  /\ IF Quiescent
     THEN scen' = "burst" /\ scenN' = 1 /\ scenBase' = fetchesStarted
          /\ scenPend' = FALSE
     ELSE IF isFetching /\ timers = 0 /\ ~pendingFetch
     THEN scen' = "inflight" /\ scenN' = 1 /\ scenBase' = fetchesStarted
          /\ scenPend' = FALSE
     ELSE IF scen = "burst" /\ ~isFetching /\ timers > 0
             /\ fetchesStarted = scenBase
     THEN scen' = "burst" /\ scenN' = scenN + 1
          /\ UNCHANGED <<scenBase, scenPend>>
     ELSE IF scen = "inflight" /\ isFetching /\ fetchesStarted = scenBase
     THEN scen' = "inflight" /\ scenN' = scenN + 1
          /\ UNCHANGED <<scenBase, scenPend>>
     ELSE scen' = "void" /\ UNCHANGED <<scenN, scenBase, scenPend>>
  /\ UNCHANGED <<backend, phase, isFetching, pendingFetch, fetches, view,
                 settings, pages, prox, locn, clock, nav,
                 fetchesStarted, worldChanges, faults, lim, visHist, lastFetch>>

\* the debounce timeout fires: its callback calls fetchBrothers
TimerFire ==
  /\ timers > 0
  /\ timers' = timers - 1
  /\ fetchBrothers
  /\ scenPend' = (scenPend \/ (scen = "inflight" /\ isFetching))
  /\ UNCHANGED <<backend, phase, view, settings, pages, prox, locn, clock, nav,
                 notifCount, worldChanges, faults, lim, visHist,
                 scen, scenN, scenBase, lastFetch>>

\* ---------------------------------------------------------------------
\* fetchBrothers after its awaits: loadViewerRelations, then the
\* locations query.  Every query either returns rows ("ok"), returns an
\* error or an unusable body ("error"), or rejects ("throw").
\* ---------------------------------------------------------------------
Outcomes == {"ok", "error", "throw"}

\* the outcome of a query: a failure counts against the run's allowance
Outcome(out) ==
  IF out = "ok" THEN UNCHANGED faults
  ELSE faults < lim.faults /\ faults' = faults + 1

Replace(f, g) == fetches' = (fetches \ {f}) \cup {g}

relationFrame ==
  UNCHANGED <<backend, phase, isFetching, pendingFetch, timers, view,
              settings, pages, prox, locn, clock, nav, hist>>

\* canonical friendships query (requester_id / addressee_id)
FriendsQuery(f, out) ==
  /\ f.pc = "friends"
  /\ \/ /\ out = "ok"
        /\ Replace(f, [f EXCEPT !.pc = "allow",
                         !.friends = FriendsFromRows(AcceptedRowsOf(Viewer), Viewer),
                         !.friendsFailed = FALSE,
                         !.rows = friendships])
     \/ /\ out = "error"
        /\ Replace(f, [f EXCEPT !.pc = "friendsFb"])
     \/ /\ out = "throw"
        /\ Replace(f, [f EXCEPT !.pc = "allow"])
  /\ Outcome(out)
  /\ relationFrame

\* fallback friendships query (user_id / friend_id)
FriendsFallback(f, out) ==
  /\ f.pc = "friendsFb"
  /\ \/ /\ out = "ok"
        /\ Replace(f, [f EXCEPT !.pc = "allow",
                         !.friends = FriendsFromRows(AcceptedRowsOf(Viewer), Viewer),
                         !.friendsFailed = FALSE,
                         !.rows = friendships])
     \/ /\ out \in {"error", "throw"}
        /\ Replace(f, [f EXCEPT !.pc = "allow"])
  /\ Outcome(out)
  /\ relationFrame

\* canonical allowlist query (owner_id / viewer_id)
AllowQuery(f, out) ==
  /\ f.pc = "allow"
  /\ \/ /\ out = "ok"
        /\ Replace(f, [f EXCEPT !.pc = "locations",
                         !.allowlisted = AllowlistedFor(Viewer),
                         !.allowFailed = FALSE,
                         !.allowRows = allowlist])
     \/ /\ out = "error"
        /\ Replace(f, [f EXCEPT !.pc = "allowFb1"])
     \/ /\ out = "throw"
        /\ Replace(f, [f EXCEPT !.pc = "locations"])
  /\ Outcome(out)
  /\ relationFrame

\* fallback 1 (owner_id / allowed_user_id)
AllowFallback1(f, out) ==
  /\ f.pc = "allowFb1"
  /\ \/ /\ out = "ok"
        /\ Replace(f, [f EXCEPT !.pc = "locations",
                         !.allowlisted = AllowlistedFor(Viewer),
                         !.allowFailed = FALSE,
                         !.allowRows = allowlist])
     \/ /\ out = "error"
        /\ Replace(f, [f EXCEPT !.pc = "allowFb2"])
     \/ /\ out = "throw"
        /\ Replace(f, [f EXCEPT !.pc = "locations"])
  /\ Outcome(out)
  /\ relationFrame

\* fallback 2 (user_id / allowed_user_id)
AllowFallback2(f, out) ==
  /\ f.pc = "allowFb2"
  /\ \/ /\ out = "ok"
        /\ Replace(f, [f EXCEPT !.pc = "locations",
                         !.allowlisted = AllowlistedFor(Viewer),
                         !.allowFailed = FALSE,
                         !.allowRows = allowlist])
     \/ /\ out \in {"error", "throw"}
        /\ Replace(f, [f EXCEPT !.pc = "locations"])
  /\ Outcome(out)
  /\ relationFrame

\* the finally block clearing the pending flag without scheduling
fetchFinallyDropPending ==
  /\ isFetching' = FALSE
  /\ pendingFetch' = FALSE
  /\ UNCHANGED timers

\* the finally block scheduling without clearing the pending flag
fetchFinallyKeepPending ==
  /\ isFetching' = FALSE
  /\ IF pendingFetch
     THEN scheduleFetchBrothers /\ UNCHANGED pendingFetch
     ELSE UNCHANGED <<pendingFetch, timers>>

\* the finally block leaving isFetchingRef set
fetchFinallyNoReset ==
  /\ UNCHANGED isFetching
  /\ IF pendingFetch
     THEN pendingFetch' = FALSE /\ scheduleFetchBrothers
     ELSE UNCHANGED <<pendingFetch, timers>>

\* the finally block of fetchBrothers
fetchFinally ==
  /\ isFetching' = FALSE
  /\ IF pendingFetch
     THEN pendingFetch' = FALSE /\ scheduleFetchBrothers
     ELSE UNCHANGED <<pendingFetch, timers>>

\* one run of checkProximityAlerts(list) by a closure that captured
\* position pos; curList and curPos are the state at the time of the call
runProximityCheck(src, list, pos, curList, curPos) ==
  LET hit == alertedBy(list, settings, pos, lastNotified, now)
  IN  /\ lastNotified' = [o \in Owners |->
                            IF o \in hit THEN now ELSE lastNotified[o]]
      /\ alerts' = alerts \cup {[user_id |-> o, at |-> now] : o \in hit}
      /\ lastCheck' =
           [src |-> src, emitted |-> hit,
            \* the viewer position the check worked with
            pos |-> pos,
            \* the candidates handed to the check that are within the
            \* radius of the position the closure holds
            near |-> {b.user_id : b \in
                       {x \in list :
                          /\ pos # NoPos
                          /\ haversineDistance(pos, x.lat)
                               <= radiusKmOf(settings)}},
            \* the candidates shown now that were alerted before, are
            \* within the radius of the viewer's position now, and whose
            \* cooldown is over
            due |-> {b.user_id : b \in
                      {x \in curList :
                         /\ settings.proximity_alerts_enabled
                         /\ radiusKmOf(settings) > 0
                         /\ curPos # NoPos
                         /\ haversineDistance(curPos, x.lat)
                              <= radiusKmOf(settings)
                         /\ lastNotified[x.user_id] > 0
                         /\ now - lastNotified[x.user_id] >= COOLDOWN_MS}}]

\* the locations query returns; with rows the filter is applied and the
\* result shown (setBrothers, then the marker diff effect of that render)
\* and checked for proximity by the fetchBrothers of the first render
LocationsQuery(f, out) ==
  /\ f.pc = "locations"
  /\ fetches' = fetches \ {f}
  /\ \/ /\ out = "ok"
        /\ LET raw == LocationsQueryRows(Viewer)
               filtered == {b \in raw : privacyFilter(b, f.friends, f.allowlisted)}
           IN  /\ brothers' = IF phase = "mounted" THEN filtered ELSE brothers
               /\ brotherMarkersById' =
                    IF phase = "mounted"
                    THEN applyMarkerDiff(brotherMarkersById, filtered, f.id)
                    ELSE brotherMarkersById
               /\ lastFetch' = [ok |-> TRUE, friendsFailed |-> f.friendsFailed,
                                allowFailed |-> f.allowFailed, raw |-> raw,
                                rows |-> f.rows, allow |-> f.allowRows,
                                n |-> f.id]
               /\ runProximityCheck("fetch", filtered, FirstRender.myPos,
                                    filtered, myPos)
               /\ wasShown' = IF phase = "mounted"
                               THEN wasShown \cup {b.user_id : b \in filtered}
                               ELSE wasShown
               /\ storeNearby(nearbyCount(filtered, myPos))
     \/ /\ out \in {"error", "throw"}
        /\ UNCHANGED nearbyStored
        /\ lastFetch' = [ok |-> FALSE, friendsFailed |-> f.friendsFailed,
                         allowFailed |-> f.allowFailed, raw |-> {},
                         rows |-> f.rows, allow |-> f.allowRows, n |-> f.id]
        /\ UNCHANGED <<view, prox, wasShown>>
  /\ stealthHist' = [o \in Owners |->
       IF stealthHist[o].since >= 0 /\ f.id > stealthHist[o].since
       THEN [stealthHist[o] EXCEPT !.done = TRUE,
                                   !.gone = (@ \/ out = "ok")]
       ELSE stealthHist[o]]
  /\ fetchFinally
  /\ Outcome(out)
  /\ UNCHANGED <<backend, phase, settings, pages, locn, clock,
                 emergencyAvailable, emergencyCount,
                 fetchesStarted, notifCount, worldChanges, lim,
                 needFetch, scen, scenN, scenBase, scenPend>>

FetchStep ==
  \E f \in fetches, out \in Outcomes :
    \/ FriendsQuery(f, out)
    \/ FriendsFallback(f, out)
    \/ AllowQuery(f, out)
    \/ AllowFallback1(f, out)
    \/ AllowFallback2(f, out)
    \/ LocationsQuery(f, out)

\* ---------------------------------------------------------------------
\* updateMyLocation and the callbacks that call it
\* ---------------------------------------------------------------------
CurrentRender == [myPos |-> myPos, brothers |-> brothers]

\* setIsUpdatingLocation(v): when the value changes while mounted, the
\* render re-creates the interval with the functions of that render
setIsUpdating(v, posAfter) ==
  IF phase = "mounted"
  THEN /\ isUpdatingLocation' = v
       /\ intervalSnap' = IF v # isUpdatingLocation
                          THEN [myPos |-> posAfter, brothers |-> brothers]
                          ELSE intervalSnap
  ELSE UNCHANGED <<isUpdatingLocation, intervalSnap>>

\* updateMyLocation up to getCurrentPosition, called by a closure cl
updateMyLocation(cl) ==
  /\ updatesStarted < lim.updates
  /\ updatesStarted' = updatesStarted + 1
  /\ upds' = upds \cup {[id |-> updatesStarted + 1, pc |-> "geo", cl |-> cl]}
  /\ setIsUpdating(TRUE, myPos)

updFrame ==
  UNCHANGED <<backend, phase, coord, view, settings, pages, clock, hist>>

\* the frame of updateMyLocation's callers and callbacks that leave the
\* stealth switch alone
geoFrame == updFrame /\ UNCHANGED <<stl, nav>>



\* the 800 ms timeout armed by the effect of lines 623-632 fires
MountTimerFire ==
  /\ mountTimer
  /\ mountTimer' = FALSE
  /\ updateMyLocation(mountSnap)
  /\ UNCHANGED <<pub, myPos, prox, faults>>
  /\ geoFrame

\* the 30 s interval fires
IntervalTick ==
  /\ phase = "mounted"
  /\ ~stealthMode
  /\ myProfile.tracking_enabled
  /\ ~isUpdatingLocation
  /\ updateMyLocation(intervalSnap)
  /\ UNCHANGED <<pub, myPos, mountTimer, prox, faults>>
  /\ geoFrame

\* the locate button (disabled while isUpdatingLocation)
LocateClick ==
  /\ phase = "mounted"
  /\ ~isUpdatingLocation
  /\ updateMyLocation(CurrentRender)
  /\ UNCHANGED <<pub, myPos, mountTimer, prox, faults>>
  /\ geoFrame

\* getCurrentPosition succeeds with latitude p and accuracy h: setMyLat /
\* setMyLng, then the upsert is sent
GeoSuccess(u, p, h) ==
  /\ u.pc = "geo"
  /\ myPos' = IF phase = "mounted" THEN p ELSE myPos
  /\ lastUpsert' = [sent |-> TRUE, latitude |-> p, accuracy |-> h,
                    row |-> upsertPayload(p, h),
                    stealth |-> stealthMode, stored |-> myRow.stealth_mode]
  /\ upsertsSent' = upsertsSent + 1
  /\ upds' = (upds \ {u}) \cup {[u EXCEPT !.pc = "upsert"]}
  /\ storeNearby(nearbyCount(brothers, p))
  /\ UNCHANGED <<isUpdatingLocation, intervalSnap, mountTimer,
                 updatesStarted, prox, faults, stl,
                 emergencyAvailable, emergencyCount>>
  /\ updFrame

\* the error callback without its setIsUpdatingLocation(false)
GeoErrorNoReset(u) ==
  /\ u.pc = "geo"
  /\ upds' = upds \ {u}
  /\ UNCHANGED <<isUpdatingLocation, intervalSnap>>
  /\ UNCHANGED <<pub, myPos, mountTimer, updatesStarted, prox, faults>>
  /\ geoFrame

\* getCurrentPosition fails or times out
GeoError(u) ==
  /\ u.pc = "geo"
  /\ upds' = upds \ {u}
  /\ setIsUpdating(FALSE, myPos)
  /\ UNCHANGED <<pub, myPos, mountTimer, updatesStarted, prox, faults>>
  /\ geoFrame

\* the locations upsert returns
UpsertReturn(u, out) ==
  /\ u.pc = "upsert"
  /\ \/ /\ out = "ok"
        /\ upds' = (upds \ {u}) \cup {[u EXCEPT !.pc = "lastseen"]}
        /\ UNCHANGED <<isUpdatingLocation, intervalSnap>>
     \/ /\ out \in {"error", "throw"}
        /\ upds' = upds \ {u}
        /\ setIsUpdating(FALSE, myPos)
  /\ Outcome(out)
  /\ UNCHANGED <<pub, myPos, mountTimer, updatesStarted, prox>>
  /\ geoFrame

\* the last_seen_at update returns; its error is not looked at, and the
\* brothers of the calling closure are checked for proximity
LastSeenReturn(u, out) ==
  /\ u.pc = "lastseen"
  /\ upds' = upds \ {u}
  /\ \/ /\ out \in {"ok", "error"}
        /\ runProximityCheck("update", u.cl.brothers, u.cl.myPos,
                             brothers, myPos)
     \/ /\ out = "throw"
        /\ UNCHANGED prox
  /\ setIsUpdating(FALSE, myPos)
  /\ Outcome(out)
  /\ UNCHANGED <<pub, myPos, mountTimer, updatesStarted>>
  /\ geoFrame

UpdateStep ==
  \E u \in upds :
    \/ \E p \in ViewerPositions, h \in lim.accs : GeoSuccess(u, p, h)
    \/ GeoError(u)
    \/ \E out \in Outcomes : UpsertReturn(u, out)
    \/ \E out \in Outcomes : LastSeenReturn(u, out)

\* ---------------------------------------------------------------------
\* The viewer's stealth switch
\* ---------------------------------------------------------------------
\* setStealthMode(v) together with the render and the effects that follow
\* when the value changes: the effect of lines 599-607 arms a timeout that
\* is never cleared when stealth was left, the interval (609-621) and the
\* 800 ms timeout (623-632) are cleared and, out of stealth, made again
\* with the functions of that render.  more: the timeouts the caller arms
\* itself (line 655)
setStealthMode(v, more) ==
  IF phase = "mounted" /\ v # stealthMode
  THEN /\ stealthMode' = v
       /\ lateTimers' = IF v THEN lateTimers \o more
                         ELSE Append(lateTimers, CurrentRender) \o more
       /\ mountTimer' = (~v /\ myProfile.tracking_enabled)
       /\ mountSnap' = IF v THEN mountSnap ELSE CurrentRender
       /\ intervalSnap' = IF v THEN intervalSnap ELSE CurrentRender
  ELSE /\ lateTimers' = lateTimers \o more
       /\ UNCHANGED <<stealthMode, mountTimer, mountSnap, intervalSnap>>

toggleFrame ==
  UNCHANGED <<profiles, friendships, allowlist, locations, phase, coord,
              view, settings, pages, prox, clock, nav, hist, myPos, isUpdatingLocation,
              upds, updatesStarted, pub>>

\* a click on the stealth button: toggleStealthMode up to its first await
ToggleClick ==
  /\ phase = "mounted"
  /\ togglesStarted < lim.toggles
  /\ togglesStarted' = togglesStarted + 1
  /\ toggles' = toggles \cup
       {[id |-> togglesStarted + 1, pc |-> "update",
         newValue |-> ~stealthMode, cl |-> CurrentRender]}
  /\ setStealthMode(~stealthMode, <<>>)
  /\ UNCHANGED <<myRow, myProfile, faults>>
  /\ toggleFrame

\* the profiles update of toggleStealthMode returns; a failure puts the
\* state back
ToggleUpdateReturn(t, out) ==
  /\ t.pc = "update"
  /\ \/ /\ out = "ok"
        /\ myRow' = [myRow EXCEPT !.stealth_mode = t.newValue]
        /\ toggles' = (toggles \ {t}) \cup {[t EXCEPT !.pc = "refresh"]}
        /\ UNCHANGED <<stealthMode, lateTimers, mountTimer, mountSnap,
                       intervalSnap>>
     \/ /\ out \in {"error", "throw"}
        /\ toggles' = toggles \ {t}
        /\ setStealthMode(~t.newValue, <<>>)
        /\ UNCHANGED myRow
  /\ Outcome(out)
  /\ UNCHANGED <<myProfile, togglesStarted>>
  /\ toggleFrame

\* refreshProfile returns (it reports no failure); the profile effect of
\* lines 226-228 follows a loaded profile, and having left stealth the
\* call arms the timeout of line 655
ToggleRefreshReturn(t, out) ==
  /\ t.pc = "refresh"
  /\ toggles' = toggles \ {t}
  /\ LET late == IF t.newValue THEN <<>> ELSE <<t.cl>>
     IN  \/ /\ out = "ok"
            /\ myProfile' = myRow
            /\ setStealthMode(myRow.stealth_mode, late)
         \/ /\ out \in {"error", "throw"}
            /\ UNCHANGED myProfile
            /\ setStealthMode(stealthMode, late)
  /\ Outcome(out)
  /\ UNCHANGED <<myRow, togglesStarted>>
  /\ toggleFrame

ToggleStep ==
  \E t \in toggles, out \in Outcomes :
    \/ ToggleUpdateReturn(t, out)
    \/ ToggleRefreshReturn(t, out)

\* a timeout of line 604 or 655 fires
LateTimerFire ==
  \E i \in 1..Len(lateTimers) :
    /\ lateTimers' = SubSeq(lateTimers, 1, i - 1)
                       \o SubSeq(lateTimers, i + 1, Len(lateTimers))
    /\ updateMyLocation(lateTimers[i])
    /\ UNCHANGED <<myPos, mountTimer, prox, faults, pub, myProfile,
                   stealthMode, toggles, mountSnap, togglesStarted, nav>>
    /\ updFrame

\* Date.now() advances
Tick(d) ==
  /\ ticks < lim.ticks
  /\ ticks' = ticks + 1
  /\ now' = now + d
  /\ UNCHANGED <<backend, phase, coord, view, settings, pages, prox, locn, hist,
                 faults, nav>>

\* ---------------------------------------------------------------------
\* Other members edit their rows in the backend
\* ---------------------------------------------------------------------
worldFrame ==
  /\ worldChanges < lim.world
  /\ worldChanges' = worldChanges + 1
  /\ UNCHANGED <<myRow, phase, coord, view, settings, pages, prox, locn, clock, nav,
                 fetchesStarted, notifCount, faults, lim, needFetch,
                 scen, scenN, scenBase, scenPend, lastFetch, wasShown>>

\* an owner switches stealth mode (profiles.stealth_mode)
SetStealth(o, v) ==
  /\ profiles[o].stealth_mode # v
  /\ profiles' = [profiles EXCEPT ![o].stealth_mode = v]
  /\ stealthHist' = [stealthHist EXCEPT ![o] =
                       [since |-> IF v THEN fetchesStarted ELSE -1,
                        done |-> FALSE, gone |-> FALSE]]
  /\ UNCHANGED <<friendships, allowlist, locations>>
  /\ worldFrame

\* an owner switches location tracking (profiles.tracking_enabled)
SetTracking(o, v) ==
  /\ profiles[o].tracking_enabled # v
  /\ profiles' = [profiles EXCEPT ![o].tracking_enabled = v]
  /\ UNCHANGED <<friendships, allowlist, locations, stealthHist>>
  /\ worldFrame

\* an owner's visibility mode changes
SetMode(o, m) ==
  /\ profiles[o].location_visibility_mode # m
  /\ profiles' = [profiles EXCEPT ![o].location_visibility_mode = m]
  /\ UNCHANGED <<friendships, allowlist, locations, stealthHist>>
  /\ worldFrame

\* the friendships row between the viewer and an owner is created or
\* changed to r
PutFriendship(o, r) ==
  /\ o \in {r.requester_id, r.addressee_id}
  /\ r \notin friendships
  /\ friendships' = {x \in friendships :
                       o \notin {x.requester_id, x.addressee_id}} \cup {r}
  /\ UNCHANGED <<profiles, allowlist, locations, stealthHist>>
  /\ worldFrame

\* the friendships row between the viewer and an owner is deleted
DeleteFriendship(o) ==
  /\ \E x \in friendships : o \in {x.requester_id, x.addressee_id}
  /\ friendships' = {x \in friendships :
                       o \notin {x.requester_id, x.addressee_id}}
  /\ UNCHANGED <<profiles, allowlist, locations, stealthHist>>
  /\ worldFrame

\* an owner adds the viewer to, or removes them from, their allowlist
SetAllowlist(o, v) ==
  /\ (o \in allowlist) # v
  /\ allowlist' = IF v THEN allowlist \cup {o} ELSE allowlist \ {o}
  /\ UNCHANGED <<profiles, friendships, locations, stealthHist>>
  /\ worldFrame

\* cleanup of the effects when the route is left
Unmount ==
  /\ phase = "mounted"
  /\ phase' = "unmounted"
  /\ timers' = 0
  /\ mountTimer' = FALSE
  /\ brothers' = {}
  /\ brotherMarkersById' = [o \in Owners |-> NoMarker]
  /\ scen' = "void"
  /\ UNCHANGED <<backend, isFetching, pendingFetch, fetches, settings, pages, prox,
                 clock, nav, myPos, isUpdatingLocation, upds, intervalSnap,
                 updatesStarted, pub, stl, fetchesStarted,
                 notifCount, worldChanges, faults, lim, visHist, needFetch,
                 scenN, scenBase,
                 scenPend, lastFetch>>

\* ---------------------------------------------------------------------
\* The refresh coordinator on its own: a fixed backend, no location updates
\* ---------------------------------------------------------------------
NextCoord ==
  \/ MountEffect
  \/ Notify
  \/ TimerFire
  \/ FetchStep
  \/ Unmount

SpecCoord == InitCoord /\ [][NextCoord]_vars

\* ---------------------------------------------------------------------
\* Proximity alerts: a fixed backend, any settings, the first fetch,
\* location updates and a clock
\* ---------------------------------------------------------------------
InitProx ==
  /\ InitClient
  /\ FixedBackend
  /\ settings \in Settings
  /\ lim = [notifs |-> 0, faults |-> ProxFaults,
            updates |-> ProxUpdates, ticks |-> ProxTicks, world |-> 0,
            toggles |-> 0,
            accs |-> UsualAccuracy]

NextProx ==
  \/ MountEffect
  \/ FetchStep
  \/ MountTimerFire
  \/ IntervalTick
  \/ LocateClick
  \/ UpdateStep
  \/ \E d \in TickSteps : Tick(d)

SpecProx == InitProx /\ [][NextProx]_vars

\* ---------------------------------------------------------------------
\* Proximity alerts re-checked by a realtime refresh: default radius,
\* alerts on
\* ---------------------------------------------------------------------
InitRecheck ==
  /\ InitClient
  /\ FixedBackend
  /\ settings = [proximity_radius_km |-> NoRadius,
                 proximity_alerts_enabled |-> TRUE]
  /\ lim = [notifs |-> RecheckNotifs, faults |-> RecheckFaults,
            updates |-> RecheckUpdates, ticks |-> RecheckTicks, world |-> 0,
            toggles |-> 0,
            accs |-> UsualAccuracy]

NextRecheck ==
  \/ MountEffect
  \/ Notify
  \/ TimerFire
  \/ FetchStep
  \/ MountTimerFire
  \/ IntervalTick
  \/ LocateClick
  \/ UpdateStep
  \/ \E d \in TickSteps : Tick(d)

SpecRecheck == InitRecheck /\ [][NextRecheck]_vars

\* ---------------------------------------------------------------------
\* The privacy filter: o1 has any profile, friendship row and allowlist
\* entry, o2 is an accepted friend sharing with friends
\* ---------------------------------------------------------------------
InitVis ==
  /\ InitClient
  /\ \E p \in ProfileRows :
       profiles = [o \in Owners |->
                     IF o = "o1" THEN p
                     ELSE [stealth_mode |-> FALSE, tracking_enabled |-> TRUE,
                           location_visibility_mode |-> "friends"]]
  /\ \E rows \in SUBSET {r \in FriendRows :
                           "o1" \in {r.requester_id, r.addressee_id}} :
       /\ Cardinality(rows) <= 1
       /\ friendships = rows \cup {[requester_id |-> "o2",
                                    addressee_id |-> Viewer,
                                    status |-> "accepted"]}
  /\ allowlist \in SUBSET {"o1"}
  /\ locations = [o \in Owners |-> IF o = "o1" THEN 2 ELSE 9]
  /\ myRow = ViewerShares
  /\ myProfile = myRow
  /\ stealthHist = [o \in Owners |->
                      [since |-> IF profiles[o].stealth_mode THEN 0 ELSE -1,
                       done |-> FALSE, gone |-> FALSE]]
  /\ settings = [proximity_radius_km |-> NoRadius,
                 proximity_alerts_enabled |-> TRUE]
  /\ lim = [notifs |-> VisNotifs, faults |-> VisFaults, updates |-> 0,
            ticks |-> 0, world |-> 0,
            toggles |-> 0,
            accs |-> UsualAccuracy]

NextVis ==
  \/ MountEffect
  \/ Notify
  \/ TimerFire
  \/ FetchStep
  \/ Unmount

SpecVis == InitVis /\ [][NextVis]_vars

\* ---------------------------------------------------------------------
\* Fetches against a backend that the other members edit
\* ---------------------------------------------------------------------
InitEdit ==
  /\ InitClient
  /\ FixedBackend
  /\ settings = [proximity_radius_km |-> NoRadius,
                 proximity_alerts_enabled |-> TRUE]
  /\ lim = [notifs |-> EditNotifs, faults |-> EditFaults, updates |-> 0,
            ticks |-> 0, world |-> EditWorld, toggles |-> 0,
            accs |-> UsualAccuracy]

WorldStep ==
  \E o \in Owners :
    \/ \E v \in BOOLEAN : SetStealth(o, v)
    \/ \E v \in BOOLEAN : SetTracking(o, v)
    \/ \E m \in RawModes : SetMode(o, m)
    \/ \E r \in FriendRows : PutFriendship(o, r)
    \/ DeleteFriendship(o)
    \/ \E v \in BOOLEAN : SetAllowlist(o, v)

NextEdit ==
  \/ MountEffect
  \/ Notify
  \/ TimerFire
  \/ FetchStep
  \/ WorldStep
  \/ Unmount

SpecEdit == InitEdit /\ [][NextEdit]_vars

\* ---------------------------------------------------------------------
\* An accepted friend within 2 km: default radius, alerts on, a realtime
\* refresh, location updates and a clock
\* ---------------------------------------------------------------------
InitNear ==
  /\ InitClient
  /\ NearBackend
  /\ settings = [proximity_radius_km |-> NoRadius,
                 proximity_alerts_enabled |-> TRUE]
  /\ lim = [notifs |-> NearNotifs, faults |-> NearFaults,
            updates |-> NearUpdates, ticks |-> NearTicks, world |-> 0,
            toggles |-> 0,
            accs |-> UsualAccuracy]

NextNear ==
  \/ MountEffect
  \/ Notify
  \/ TimerFire
  \/ FetchStep
  \/ MountTimerFire
  \/ IntervalTick
  \/ LocateClick
  \/ UpdateStep
  \/ \E d \in TickSteps : Tick(d)

SpecNear == InitNear /\ [][NextNear]_vars

\* ---------------------------------------------------------------------
\* The location publisher: every accuracy reading of DeviceAccuracies
\* ---------------------------------------------------------------------
InitPublish ==
  /\ InitClient
  /\ FixedBackend
  /\ settings = [proximity_radius_km |-> NoRadius,
                 proximity_alerts_enabled |-> TRUE]
  /\ lim = [notifs |-> 0, faults |-> PublishFaults,
            updates |-> PublishUpdates, ticks |-> 0, world |-> 0,
            toggles |-> 0,
            accs |-> DeviceAccuracies]

NextPublish ==
  \/ MountEffect
  \/ FetchStep
  \/ MountTimerFire
  \/ IntervalTick
  \/ LocateClick
  \/ UpdateStep

SpecPublish == InitPublish /\ [][NextPublish]_vars

\* ---------------------------------------------------------------------
\* The viewer's stealth switch and the location publisher
\* ---------------------------------------------------------------------
InitStealth ==
  /\ InitClient
  /\ FixedBackend
  /\ settings = [proximity_radius_km |-> NoRadius,
                 proximity_alerts_enabled |-> TRUE]
  /\ lim = [notifs |-> 0, faults |-> StealthFaults,
            updates |-> StealthUpdates, ticks |-> 0, world |-> 0,
            toggles |-> StealthToggles, accs |-> UsualAccuracy]

NextStealth ==
  \/ MountEffect
  \/ FetchStep
  \/ MountTimerFire
  \/ IntervalTick
  \/ LocateClick
  \/ UpdateStep
  \/ ToggleClick
  \/ ToggleStep
  \/ LateTimerFire

SpecStealth == InitStealth /\ [][NextStealth]_vars

\* ---------------------------------------------------------------------
\* The refresh coordinator with the scheduling the browser guarantees: an
\* armed timeout fires and a query sent gets its answer
\* ---------------------------------------------------------------------
LiveCoord == SpecCoord /\ WF_vars(TimerFire) /\ WF_vars(FetchStep)

\* ---------------------------------------------------------------------
\* Properties
\* ---------------------------------------------------------------------

\* C1: at most one fetchBrothers query sequence is in flight, and it is in
\* flight exactly while isFetchingRef is set
SingleFlight ==
  /\ Cardinality(fetches) <= 1
  /\ isFetching <=> fetches # {}
  /\ pendingFetch => isFetching

\* C1: a call of fetchBrothers (by the debounce timeout) while a fetch is in
\* flight starts no query and only sets the pending flag
CallWhileInFlight ==
  (TimerFire /\ isFetching) =>
     /\ pendingFetch'
     /\ fetches' = fetches
     /\ fetchesStarted' = fetchesStarted
     /\ isFetching'

\* C1: in every interleaving of the mount-time fetch, notifications, timer
\* firings and completions at most one query sequence is in flight, and a
\* call made meanwhile only sets the pending flag
C1_SingleFlight == []SingleFlight /\ [][CallWhileInFlight]_vars

C1_Witness == isFetching /\ pendingFetch /\ Cardinality(fetches) = 1
              /\ notifCount >= 2

\* C2: while the view stays mounted, every notification is eventually
\* followed by the start of a fetch
C2_NotifiedThenFetched ==
  (needFetch /\ phase = "mounted") ~> (~needFetch \/ phase # "mounted")

C2_Witness == /\ phase = "mounted"
              /\ notifCount = CoordNotifs
              /\ ~needFetch
              /\ fetchesStarted >= 2
              /\ Quiescent

\* C3: notifications that arrive while idle, each before the debounce
\* timeout of the one before has fired, start no fetch until the timeout
\* fires and exactly one when it does
C3_BurstOneFetch ==
  scen = "burst" =>
     \/ timers = 1 /\ ~isFetching /\ fetchesStarted = scenBase
     \/ timers = 0 /\ ~pendingFetch /\ fetchesStarted = scenBase + 1

C3_Witness == /\ scen = "burst"
              /\ scenN >= 3
              /\ Quiescent
              /\ fetchesStarted = scenBase + 1

\* C4: notifications that arrive while a fetch is in flight start exactly one
\* more fetch after it completes, however many they are and whether their
\* timeout fired before or after the completion
C4_InflightOneMore ==
  scen = "inflight" =>
     /\ fetchesStarted <= scenBase + 1
     /\ Quiescent => fetchesStarted = scenBase + 1
     /\ fetchesStarted = scenBase + 1 => (timers = 0 /\ ~pendingFetch)

C4_Witness == /\ scen = "inflight"
              /\ scenN >= 2
              /\ scenPend
              /\ Quiescent
              /\ fetchesStarted = scenBase + 1

\* an accepted friendships row joins the viewer and owner o, either way round
AcceptedEdge(rows, o) ==
  \E r \in rows :
    /\ r.status = "accepted"
    /\ \/ r.requester_id = Viewer /\ r.addressee_id = o
       \/ r.requester_id = o /\ r.addressee_id = Viewer

\* the visibility rule of the data model for a record whose mode is m
VisibleByRule(b, m, rows, allow) ==
  /\ ~b.profile.stealth_mode
  /\ b.profile.tracking_enabled
  /\ \/ m = "public"
     \/ m = "friends" /\ AcceptedEdge(rows, b.user_id)
     \/ m = "friends_selected" /\ b.user_id \in allow

\* the last fetch loaded both relations, got the locations and was shown
ShownFetch ==
  /\ phase = "mounted"
  /\ lastFetch.ok
  /\ ~lastFetch.friendsFailed
  /\ ~lastFetch.allowFailed

\* C5 as stated: a returned record is shown iff the rule holds for the mode
\* stored in the owner's profile
C5_VisibleIffStoredMode ==
  ShownFetch =>
    \A b \in lastFetch.raw :
      b \in brothers <=>
        VisibleByRule(b, b.profile.location_visibility_mode,
                      lastFetch.rows, lastFetch.allow)

\* C5 amended: a returned record is shown iff the rule holds for the mode
\* stored in the owner's profile, a missing or unknown mode counting as
\* friends
C5_VisibleIffRule ==
  ShownFetch =>
    \A b \in lastFetch.raw :
      b \in brothers <=>
        VisibleByRule(b,
                      IF b.profile.location_visibility_mode = "unset"
                      THEN "friends"
                      ELSE b.profile.location_visibility_mode,
                      lastFetch.rows, lastFetch.allow)

C5_Witness ==
  /\ ShownFetch
  /\ \E b \in brothers :
       /\ b.user_id = "o1"
       /\ b.profile.location_visibility_mode = "friends"
       /\ [requester_id |-> Viewer, addressee_id |-> "o1",
           status |-> "accepted"] \in lastFetch.rows
  /\ \E b \in brothers : b.user_id = "o2"

\* C6: a fetch whose friendship lookup (allowlist lookup) failed shows no
\* candidate that shares with friends (with selected friends)
C6_FailClosed ==
  (phase = "mounted" /\ lastFetch.ok) =>
    /\ lastFetch.friendsFailed =>
         \A b \in brothers :
           normalizeVisibilityMode(b.profile.location_visibility_mode)
             # "friends"
    /\ lastFetch.allowFailed =>
         \A b \in brothers :
           normalizeVisibilityMode(b.profile.location_visibility_mode)
             # "friends_selected"

C6_Witness ==
  /\ phase = "mounted"
  /\ lastFetch.ok
  /\ lastFetch.friendsFailed
  /\ lastFetch.allowFailed
  /\ \E b \in lastFetch.raw :
       /\ b.user_id = "o2"
       /\ b \notin brothers
       /\ AcceptedEdge(friendships, "o2")
  /\ \E b \in lastFetch.raw :
       /\ b.profile.location_visibility_mode = "friends_selected"
       /\ ~b.profile.stealth_mode
       /\ b.profile.tracking_enabled
       /\ b.user_id \in allowlist
       /\ b \notin brothers

ShownIds == {b.user_id : b \in brothers}

AlertsSpaced ==
  \A a \in alerts : \A b \in alerts :
    (a.user_id = b.user_id /\ a # b) =>
      (a.at - b.at >= COOLDOWN_MS \/ b.at - a.at >= COOLDOWN_MS)

\* C8: at most one alert per candidate per cooldown window, and a check made
\* once the cooldown is over alerts again for a candidate still within the
\* radius
C8_OnePerCooldown ==
  /\ AlertsSpaced
  /\ lastCheck.due \subseteq lastCheck.emitted

NoEntries == [o \in Owners |-> 0]

\* C9: with radius 0 no alert is shown, lastNotified gets no entry and the
\* nearby count is 0
C9_RadiusZeroOff ==
  radiusKmOf(settings) = 0 =>
    /\ alerts = {}
    /\ lastNotified = NoEntries
    /\ nearbyBrothersCount = 0

C9_Witness ==
  /\ radiusKmOf(settings) = 0
  /\ settings.proximity_alerts_enabled
  /\ lastCheck.src = "update"
  /\ lastCheck.near # {}
  /\ myPos # NoPos
  /\ \E b \in brothers : haversineDistance(myPos, b.lat) = 0

\* C10: as long as no position was acquired no alert is shown and
\* lastNotified gets no entry
C10_NoPositionNoAlert ==
  myPos = NoPos => (alerts = {} /\ lastNotified = NoEntries)

C10_Witness ==
  /\ myPos = NoPos
  /\ settings.proximity_alerts_enabled
  /\ radiusKmOf(settings) > 0
  /\ lastCheck.src = "fetch"
  /\ Cardinality(brothers) = 2

\* a fetch that loaded the friendships completes with its locations while
\* the view is mounted
FetchApplied ==
  /\ phase = "mounted"
  /\ \E f \in fetches : ~f.friendsFailed /\ LocationsQuery(f, "ok")

\* the owners shown that are accepted friends sharing with friends and are
\* within 2 km of position pos
NearFriends(list, pos) ==
  {b.user_id : b \in
     {x \in list :
        /\ x.profile.location_visibility_mode = "friends"
        /\ AcceptedEdge(friendships, x.user_id)
        /\ haversineDistance(pos, x.lat) <= 2}}

\* C11: when a fetch completes for a viewer whose position is known, an
\* accepted friend within 2 km is shown and has been alerted for, and no
\* second alert for them follows within the cooldown
C11_FriendShownAndAlerted ==
  /\ [][(FetchApplied /\ myPos # NoPos) =>
          /\ "o2" \in NearFriends(brothers', myPos)
          /\ \A o \in NearFriends(brothers', myPos) :
               \E a \in alerts' : a.user_id = o]_vars
  /\ []AlertsSpaced

\* C12: every upsert sent carries an accuracy between 100 and 300: for a
\* whole reading a, 100 if a < 100, 300 if a > 300 and a otherwise
C12_AccuracyClamped ==
  lastUpsert.sent =>
    /\ lastUpsert.row.accuracy_meters \in 100..300
    /\ lastUpsert.accuracy % 2 = 0 =>
         LET a == lastUpsert.accuracy \div 2
         IN  lastUpsert.row.accuracy_meters =
               IF a < 100 THEN 100 ELSE IF a > 300 THEN 300 ELSE a

C12_Witness ==
  /\ upsertsSent = 2
  /\ lastUpsert.sent
  /\ lastUpsert.accuracy = 4000
  /\ lastUpsert.row.accuracy_meters = 300

\* C13: the latitude written to the backend is never the one the device
\* returned
C13_NeverExact ==
  lastUpsert.sent => lastUpsert.row.lat # lastUpsert.latitude

\* C14: no locations upsert is sent while the viewer's stealth mode is on
\* (switched on in the view and stored in their profile)
C14_NoUpsertInStealth ==
  lastUpsert.sent => ~(lastUpsert.stealth /\ lastUpsert.stored)

\* the ids of the resolved set that get a marker: not in stealth (every
\* record has coordinates)
ResolvedIds == {b.user_id : b \in {x \in brothers : ~x.profile.stealth_mode}}

\* an id that has a marker before and after a step has the same marker
MarkersKept ==
  \A o \in Owners :
    (brotherMarkersById[o] # NoMarker /\ brotherMarkersById'[o] # NoMarker)
      => brotherMarkersById'[o] = brotherMarkersById[o]

\* C15: the ids that have a marker are the ids of the resolved set, and a
\* marker of an id that stays is kept, not made again
C15_MarkersFollowResolved ==
  /\ [](markers = ResolvedIds)
  /\ [][MarkersKept]_vars

C15_Witness ==
  /\ phase = "mounted"
  /\ lastFetch.ok
  /\ lastFetch.n = 2
  /\ brotherMarkersById["o2"] = 1
  /\ brotherMarkersById["o1"] = NoMarker
  /\ "o1" \in wasShown

\* an acquisition fails while the view is mounted
GeoFails == phase = "mounted" /\ \E u \in upds : GeoError(u)

\* the interval exists and its callback finds no update under way (and
\* the run has an update left)
IntervalMayTick ==
  /\ phase = "mounted"
  /\ ~stealthMode
  /\ myProfile.tracking_enabled
  /\ ~isUpdatingLocation
  /\ updatesStarted < lim.updates

\* C16: a failed acquisition sends no upsert, leaves the position held in
\* memory alone and puts the updating flag back to false, and with the flag
\* false the next tick of the interval starts an acquisition
C16_GeoFailureSkipsCycle ==
  /\ [][GeoFails =>
          /\ upsertsSent' = upsertsSent
          /\ lastUpsert' = lastUpsert
          /\ myPos' = myPos
          /\ ~isUpdatingLocation']_vars
  /\ [](IntervalMayTick => ENABLED IntervalTick)

C16_Witness ==
  /\ phase = "mounted"
  /\ updatesStarted = 2
  /\ upsertsSent = 0
  /\ myPos = NoPos
  /\ \E u \in upds : u.pc = "geo" /\ u.id = 2
  /\ Cardinality(upds) = 1

\* a fetch completes (its locations query returns, fails or throws) with
\* the pending flag set
CompletesWithPending ==
  /\ pendingFetch
  /\ \E f \in fetches, out \in Outcomes : LocationsQuery(f, out)

\* C17 as stated: when a fetch completes with the pending flag set, the
\* flag is cleared and the next fetch starts at that completion
C17_PendingStartsAtOnce ==
  [][CompletesWithPending =>
       /\ ~pendingFetch'
       /\ isFetching'
       /\ fetchesStarted' = fetchesStarted + 1]_vars

\* C17 amended: when a fetch completes with the pending flag set, the flag
\* is cleared and the debounce timeout armed, no fetch being in flight
\* until it fires; its firing starts the next fetch
C17_PendingStartsAfterDebounce ==
  /\ [][CompletesWithPending =>
          /\ ~pendingFetch'
          /\ timers' = 1
          /\ ~isFetching'
          /\ fetches' = {}
          /\ fetchesStarted' = fetchesStarted]_vars
  /\ [][(TimerFire /\ ~isFetching) =>
          /\ isFetching'
          /\ fetchesStarted' = fetchesStarted + 1
          /\ timers' = 0]_vars

C17_Witness ==
  /\ phase = "mounted"
  /\ scen = "inflight"
  /\ scenPend
  /\ ~isFetching
  /\ ~pendingFetch
  /\ timers = 1
  /\ fetchesStarted = scenBase

\* a change notification arrives while a fetch is in flight
NotifiedInFlight == Notify /\ isFetching

\* C18 as stated: a notification that arrives while a fetch is in flight
\* starts no fetch and sets the pending flag at that moment
C18_FlagSetOnArrival ==
  [][NotifiedInFlight =>
       /\ fetchesStarted' = fetchesStarted
       /\ fetches' = fetches
       /\ pendingFetch']_vars

\* C18 amended: a notification that arrives while a fetch is in flight
\* starts no fetch and arms the debounce timeout, leaving the pending flag
\* as it is; the flag is set when the timeout fires during the fetch; so
\* while the view is mounted, from the arrival until the fetch completes
\* the timeout is armed or the flag is set
C18_RefetchOwedWhileInFlight ==
  /\ [][NotifiedInFlight =>
          /\ fetchesStarted' = fetchesStarted
          /\ fetches' = fetches
          /\ timers' = 1
          /\ pendingFetch' = pendingFetch]_vars
  /\ [][(TimerFire /\ isFetching) =>
          /\ pendingFetch'
          /\ fetchesStarted' = fetchesStarted]_vars
  /\ []((phase = "mounted" /\ needFetch /\ isFetching)
          => (timers = 1 \/ pendingFetch))

C18_Witness ==
  /\ phase = "mounted"
  /\ scen = "inflight"
  /\ isFetching
  /\ needFetch
  /\ timers = 1
  /\ ~pendingFetch
  /\ scenN >= 2

\* C19: the proximity check of a fetch result works with the viewer
\* position held when the result is applied
C19_LatestPositionAtApply ==
  [][(phase = "mounted" /\ \E f \in fetches : LocationsQuery(f, "ok")) =>
       lastCheck'.pos = myPos]_vars

\* the locations query of a fetch returns an error or throws
LocationsFail ==
  \E f \in fetches, out \in {"error", "throw"} : LocationsQuery(f, out)

\* C20: a fetch whose locations query fails leaves the displayed set, the
\* markers and lastNotified as they are and shows no alert; it schedules a
\* fetch only if the pending flag was set and resets the in-flight flag, so
\* that the next firing of the debounce timeout starts a fetch
C20_FailedFetchAbandoned ==
  /\ [][LocationsFail =>
          /\ UNCHANGED <<brothers, brotherMarkersById, lastNotified, alerts>>
          /\ fetchesStarted' = fetchesStarted
          /\ timers' = IF pendingFetch THEN 1 ELSE timers
          /\ ~pendingFetch'
          /\ ~isFetching'
          /\ fetches' = {}]_vars
  /\ [][(TimerFire /\ ~lastFetch.ok /\ fetches = {}) =>
          /\ isFetching'
          /\ fetchesStarted' = fetchesStarted + 1]_vars

C20_Witness ==
  /\ phase = "mounted"
  /\ lastFetch.n = 2
  /\ ~lastFetch.ok
  /\ brothers # {}
  /\ markers = ShownIds
  /\ fetchesStarted = 3
  /\ isFetching

\* ---------------------------------------------------------------------
\* Repeated proximity checks: a fixed backend, radius 5 km, alerts on or
\* off, the first fetch, enough location updates for a check to find a
\* candidate it alerted for before, and a clock
\* ---------------------------------------------------------------------
InitAlert ==
  /\ InitClient
  /\ FixedBackend
  /\ settings \in [proximity_radius_km : {5},
                   proximity_alerts_enabled : BOOLEAN]
  /\ lim = [notifs |-> 0, faults |-> AlertFaults,
            updates |-> AlertUpdates, ticks |-> AlertTicks, world |-> 0,
            toggles |-> 0,
            accs |-> UsualAccuracy]

NextAlert ==
  \/ MountEffect
  \/ FetchStep
  \/ MountTimerFire
  \/ IntervalTick
  \/ LocateClick
  \/ UpdateStep
  \/ \E d \in TickSteps : Tick(d)

SpecAlert == InitAlert /\ [][NextAlert]_vars

\* ---------------------------------------------------------------------
\* The stealth switch of a viewer who disabled location tracking
\* (profiles.tracking_enabled = false), in or out of stealth at mount
\* ---------------------------------------------------------------------
InitTrackOff ==
  /\ InitClient
  /\ stealthHist = [o \in Owners |-> [since |-> -1, done |-> FALSE,
                                       gone |-> FALSE]]
  /\ profiles = [o \in Owners |->
                   [stealth_mode |-> FALSE, tracking_enabled |-> TRUE,
                    location_visibility_mode |-> "public"]]
  /\ friendships = {}
  /\ allowlist = {}
  /\ locations = [o \in Owners |-> IF o = "o1" THEN 2 ELSE 9]
  /\ myRow \in [stealth_mode : BOOLEAN, tracking_enabled : BOOLEAN]
  /\ myProfile = myRow
  /\ settings = [proximity_radius_km |-> NoRadius,
                 proximity_alerts_enabled |-> TRUE]
  /\ lim = [notifs |-> 0, faults |-> TrackOffFaults,
            updates |-> TrackOffUpdates, ticks |-> 0, world |-> 0,
            toggles |-> TrackOffToggles, accs |-> UsualAccuracy]

NextTrackOff ==
  \/ MountEffect
  \/ FetchStep
  \/ MountTimerFire
  \/ IntervalTick
  \/ LocateClick
  \/ UpdateStep
  \/ ToggleClick
  \/ ToggleStep
  \/ LateTimerFire

SpecTrackOff == InitTrackOff /\ [][NextTrackOff]_vars

\* ---------------------------------------------------------------------
\* The navigation bar: a client whose localStorage holds the count an
\* earlier session stored, a map view that is mounted and left again, and
\* the polls of BottomNav on whichever page is shown
\* ---------------------------------------------------------------------
InitNav ==
  /\ InitView
  /\ InitSocial /\ InitVerif
  /\ nearbyStored \in 0..NavStored
  /\ FixedBackend
  /\ settings = [proximity_radius_km |-> NoRadius,
                 proximity_alerts_enabled |-> TRUE]
  /\ lim = [notifs |-> NavNotifs, faults |-> NavFaults,
            updates |-> NavUpdates, ticks |-> 0, world |-> 0,
            toggles |-> 0, accs |-> UsualAccuracy]

NextNav ==
  \/ MountEffect
  \/ Notify
  \/ TimerFire
  \/ FetchStep
  \/ MountTimerFire
  \/ UpdateStep
  \/ NavPoll
  \/ Unmount

SpecNav == InitNav /\ [][NextNav]_vars

\* ---------------------------------------------------------------------
\* The Friends page (src/src/pages/Friends.tsx): two members, each with
\* their own page, and the friendships table.  Every query is one atomic
\* step at the backend; a handler is suspended between its queries.
\* ---------------------------------------------------------------------
mapVars == <<backend, phase, coord, view, settings, prox, locn, clock, hist,
             faults, nav>>

OtherOf(u) == CHOOSE w \in FriendUsers : w # u

\* the rows between two members, in either direction (the .or() filter
\* of sendRequest)
RowsBetween(a, b) ==
  {r \in friendRows :
     \/ (r.requester_id = a /\ r.addressee_id = b)
     \/ (r.requester_id = b /\ r.addressee_id = a)}

\* the lists fetchFriendships makes of the rows it loaded
incoming(u) == {r \in pageRows[u] : r.addressee_id = u /\ r.status = "pending"}
outgoing(u) == {r \in pageRows[u] : r.requester_id = u /\ r.status = "pending"}
accepted(u) == {r \in pageRows[u] : r.status = "accepted"}

\* a handler is called: a click, counted against the run's allowance
handlerCalled ==
  /\ friendOps < FriendOps
  /\ friendOps' = friendOps + 1

\* refreshAll / fetchFriendships: the rows that involve the member
refreshAll(u) ==
  /\ pageRows' = [pageRows EXCEPT ![u] =
                    {r \in friendRows : u \in {r.requester_id, r.addressee_id}}]
  /\ UNCHANGED <<friendRows, rowsMade, sends, told, lastOp, friendOps>>
  /\ UNCHANGED <<mapVars, verif>>

\* sendRequest up to its first await (the Enviar button of a search
\* result, shown whatever the relation is)
SendClick(u) ==
  /\ handlerCalled
  /\ sends' = sends \cup {[by |-> u, to |-> OtherOf(u), pc |-> "find",
                            n |-> friendOps + 1, id |-> 0]}
  /\ UNCHANGED <<friendRows, rowsMade, pageRows, told, lastOp>>
  /\ UNCHANGED <<mapVars, verif>>

\* the lookup of an existing row returns (limit 1: any one of them)
SendFind(c, out) ==
  /\ c.pc = "find"
  /\ \/ /\ out = "ok"
        /\ RowsBetween(c.by, c.to) = {}
        /\ sends' = (sends \ {c}) \cup {[c EXCEPT !.pc = "insert"]}
        /\ UNCHANGED told
     \/ /\ out = "ok"
        /\ \E r \in RowsBetween(c.by, c.to) :
             IF r.status = "blocked"
             THEN /\ sends' = (sends \ {c}) \cup
                              {[c EXCEPT !.pc = "update", !.id = r.id]}
                  /\ UNCHANGED told
             ELSE /\ sends' = sends \ {c}
                  /\ told' = [told EXCEPT ![c.by] = "exists"]
     \/ /\ out = "error"
        /\ sends' = sends \ {c}
        /\ told' = [told EXCEPT ![c.by] = "sendFailed"]
  /\ UNCHANGED <<friendRows, rowsMade, pageRows, lastOp, friendOps>>
  /\ UNCHANGED <<mapVars, verif>>

\* what the table does with an insert of (requester a, addressee b): the
\* unique constraint the comment of line 230 speaks of refuses a second
\* row (a, b); whether it also refuses (a, b) next to a row (b, a) is
\* decided by a table definition that is not part of the repository
insertOutcomes(a, b) ==
  IF \E r \in friendRows : r.requester_id = a /\ r.addressee_id = b
  THEN {"error"}
  ELSE {"ok", "error"}

\* the insert of a new pending row returns
SendInsert(c, out) ==
  /\ c.pc = "insert"
  /\ out \in insertOutcomes(c.by, c.to)
  /\ sends' = sends \ {c}
  /\ IF out = "ok"
     THEN /\ friendRows' = friendRows \cup
                {[id |-> rowsMade + 1, requester_id |-> c.by,
                  addressee_id |-> c.to, status |-> "pending"]}
          /\ rowsMade' = rowsMade + 1
          /\ told' = [told EXCEPT ![c.by] = "sent"]
          /\ lastOp' = [kind |-> "insert", by |-> c.by, id |-> rowsMade + 1,
                        before |-> RowsBetween(c.by, c.to)]
     ELSE /\ told' = [told EXCEPT ![c.by] = "sendFailed"]
          /\ UNCHANGED <<friendRows, rowsMade, lastOp>>
  /\ UNCHANGED <<pageRows, friendOps>>
  /\ UNCHANGED <<mapVars, verif>>

\* the update that re-uses a blocked row returns: the row with that id,
\* whatever its status is by now
SendUpdate(c, out) ==
  /\ c.pc = "update"
  /\ sends' = sends \ {c}
  /\ IF out = "ok"
     THEN /\ friendRows' =
               {IF r.id = c.id
                THEN [r EXCEPT !.status = "pending", !.requester_id = c.by,
                               !.addressee_id = c.to]
                ELSE r : r \in friendRows}
          /\ told' = [told EXCEPT ![c.by] = "sent"]
          /\ lastOp' = [kind |-> "reuse", by |-> c.by, id |-> c.id,
                        before |-> {r \in friendRows : r.id = c.id}]
     ELSE /\ told' = [told EXCEPT ![c.by] = "sendFailed"]
          /\ UNCHANGED <<friendRows, lastOp>>
  /\ UNCHANGED <<rowsMade, pageRows, friendOps>>
  /\ UNCHANGED <<mapVars, verif>>

\* the filters of acceptRequest's update without the one on the status
acceptMatchesAnyStatus(r, u, id) ==
  r.id = id /\ r.addressee_id = u

\* the filters of acceptRequest's update: the row, addressed to the
\* caller, still pending
acceptMatches(r, u, id) ==
  r.id = id /\ r.addressee_id = u /\ r.status = "pending"

\* acceptRequest(rowId) for a row of the caller's incoming list
acceptRequest(u, id, out) ==
  /\ handlerCalled
  /\ id \in {r.id : r \in incoming(u)}
  /\ LET hit == {r \in friendRows : acceptMatches(r, u, id)}
     IN  /\ lastOp' = [kind |-> "accept", by |-> u, id |-> id,
                       before |-> {r \in friendRows : r.id = id}]
         /\ IF out = "ok"
            THEN /\ friendRows' = {IF r \in hit
                                    THEN [r EXCEPT !.status = "accepted"]
                                    ELSE r : r \in friendRows}
                 /\ told' = [told EXCEPT ![u] =
                              IF hit = {} THEN "acceptFailed" ELSE "accepted"]
            ELSE /\ told' = [told EXCEPT ![u] = "acceptFailed"]
                 /\ UNCHANGED friendRows
  /\ UNCHANGED <<rowsMade, pageRows, sends>>
  /\ UNCHANGED <<mapVars, verif>>

\* the update of rejectRequest and of cancelRequest: status blocked for
\* the row with that id
blockRow(kind, u, id, out) ==
  /\ handlerCalled
  /\ lastOp' = [kind |-> kind, by |-> u, id |-> id,
                before |-> {r \in friendRows : r.id = id}]
  /\ IF out = "ok"
     THEN /\ friendRows' = {IF r.id = id THEN [r EXCEPT !.status = "blocked"]
                             ELSE r : r \in friendRows}
          /\ told' = [told EXCEPT ![u] = kind]
     ELSE /\ told' = [told EXCEPT ![u] = "failed"]
          /\ UNCHANGED friendRows
  /\ UNCHANGED <<rowsMade, pageRows, sends>>
  /\ UNCHANGED <<mapVars, verif>>

\* rejectRequest(requestId) for a row of the caller's incoming list
rejectRequest(u, id, out) ==
  /\ id \in {r.id : r \in incoming(u)}
  /\ blockRow("rejected", u, id, out)

\* cancelRequest(requestId) for a row of the caller's outgoing list
cancelRequest(u, id, out) ==
  /\ id \in {r.id : r \in outgoing(u)}
  /\ blockRow("cancelled", u, id, out)

\* removeFriend(friendshipId) for a row of the caller's friends list
removeFriend(u, id, out) ==
  /\ handlerCalled
  /\ id \in {r.id : r \in accepted(u)}
  /\ lastOp' = [kind |-> "remove", by |-> u, id |-> id,
                before |-> {r \in friendRows : r.id = id}]
  /\ IF out = "ok"
     THEN /\ friendRows' = {r \in friendRows : r.id # id}
          /\ told' = [told EXCEPT ![u] = "removed"]
     ELSE /\ told' = [told EXCEPT ![u] = "failed"]
          /\ UNCHANGED friendRows
  /\ UNCHANGED <<rowsMade, pageRows, sends>>
  /\ UNCHANGED <<mapVars, verif>>

QueryOutcomes == {"ok", "error"}
RowIds == 1..FriendOps

SendStep ==
  \E c \in sends, out \in QueryOutcomes :
    \/ SendFind(c, out)
    \/ SendInsert(c, out)
    \/ SendUpdate(c, out)

AcceptStep ==
  \E u \in FriendUsers, id \in RowIds, out \in QueryOutcomes :
    acceptRequest(u, id, out)

RejectStep ==
  \E u \in FriendUsers, id \in RowIds, out \in QueryOutcomes :
    rejectRequest(u, id, out)

CancelStep ==
  \E u \in FriendUsers, id \in RowIds, out \in QueryOutcomes :
    cancelRequest(u, id, out)

RemoveStep ==
  \E u \in FriendUsers, id \in RowIds, out \in QueryOutcomes :
    removeFriend(u, id, out)

InitFriends ==
  /\ InitClient
  /\ FixedBackend
  /\ settings = [proximity_radius_km |-> NoRadius,
                 proximity_alerts_enabled |-> TRUE]
  /\ lim = [notifs |-> 0, faults |-> 0, updates |-> 0, ticks |-> 0,
            world |-> 0, toggles |-> 0, accs |-> UsualAccuracy]

NextFriends ==
  \/ \E u \in FriendUsers : SendClick(u)
  \/ SendStep
  \/ AcceptStep
  \/ RejectStep
  \/ CancelStep
  \/ RemoveStep
  \/ \E u \in FriendUsers : refreshAll(u)

SpecFriends == InitFriends /\ [][NextFriends]_vars

\* ---------------------------------------------------------------------
\* The verification quiz (src/src/hooks/useVerification.tsx and the
\* Verification page of src/src/pages/Profile.tsx).  A quiz run is taken
\* by its result; the lock (locked_until one year ahead) is a flag.
\* ---------------------------------------------------------------------
\* isBlocked() of a page whose attempts state is a
isBlocked(a) ==
  IF ~a.loaded THEN FALSE
  ELSE IF a.locked THEN TRUE
  ELSE a.attempt_count >= maxAttempts

\* getRemainingAttempts()
getRemainingAttempts(a) ==
  IF ~a.loaded THEN maxAttempts
  ELSE Max(0, maxAttempts - a.attempt_count)

Loaded(row) == [loaded |-> TRUE, attempt_count |-> row.attempt_count,
                locked |-> row.locked]

\* the outcome of a query of these pages
VerifOutcome(out) ==
  IF out = "ok" THEN UNCHANGED verifFaults
  ELSE verifFaults < VerifFaults /\ verifFaults' = verifFaults + 1

verifFrame == UNCHANGED <<mapVars, social>>

\* the page is opened: fetchAttempts (an error leaves attempts null) and
\* the effect that follows the profile
FetchAttempts(t, out) ==
  /\ tabs[t].pc = "loading"
  /\ tabs' = [tabs EXCEPT ![t].pc = "quiz",
                          ![t].attempts = IF out = "ok" THEN Loaded(attemptRow)
                                          ELSE @,
                          ![t].localBlocked = (verifStatus = "manual_review")]
  /\ VerifOutcome(out)
  /\ UNCHANGED <<attemptRow, verifStatus, failedRuns>>
  /\ verifFrame

\* a quiz run ends with fewer than 3 correct answers on a page that shows
\* the quiz: recordFailedAttempt up to its update
FailedRun(t) ==
  /\ tabs[t].pc = "quiz"
  /\ ~isBlocked(tabs[t].attempts)
  /\ ~tabs[t].localBlocked
  /\ failedRuns < VerifRuns
  /\ failedRuns' = failedRuns + 1
  /\ tabs' = IF tabs[t].attempts.loaded
             THEN [tabs EXCEPT ![t].pc = "update",
                               ![t].newAttemptCount =
                                  tabs[t].attempts.attempt_count + 1]
             ELSE tabs
  /\ UNCHANGED <<attemptRow, verifStatus, verifFaults>>
  /\ verifFrame

\* the update of verification_attempts returns; the count written is the
\* one recordFailedAttempt computed from the attempts state of its render
RecordUpdate(t, out) ==
  /\ tabs[t].pc = "update"
  /\ IF out = "ok"
     THEN /\ attemptRow' = [attempt_count |-> tabs[t].newAttemptCount,
                            locked |-> tabs[t].newAttemptCount >= maxAttempts]
          /\ tabs' = [tabs EXCEPT ![t].pc =
                        IF tabs[t].newAttemptCount >= maxAttempts
                        THEN "profile" ELSE "refetch"]
     ELSE /\ tabs' = [tabs EXCEPT ![t].pc = "quiz"]
          /\ UNCHANGED attemptRow
  /\ VerifOutcome(out)
  /\ UNCHANGED <<verifStatus, failedRuns>>
  /\ verifFrame

\* the update of profiles.verification_status returns; its error is not
\* looked at
RecordProfile(t, out) ==
  /\ tabs[t].pc = "profile"
  /\ verifStatus' = IF out = "ok" THEN "manual_review" ELSE verifStatus
  /\ tabs' = [tabs EXCEPT ![t].pc = "refetch"]
  /\ VerifOutcome(out)
  /\ UNCHANGED <<attemptRow, failedRuns>>
  /\ verifFrame

\* fetchAttempts at the end of recordFailedAttempt returns, and the page
\* blocks itself or resets the quiz
RecordRefetch(t, out) ==
  /\ tabs[t].pc = "refetch"
  /\ tabs' = [tabs EXCEPT
       ![t].pc = "quiz",
       ![t].attempts = IF out = "ok" THEN Loaded(attemptRow) ELSE @,
       ![t].localBlocked = (@ \/ tabs[t].newAttemptCount >= maxAttempts)]
  /\ VerifOutcome(out)
  /\ UNCHANGED <<attemptRow, verifStatus, failedRuns>>
  /\ verifFrame

VerifStep ==
  \E t \in VerifTabs, out \in QueryOutcomes :
    \/ FetchAttempts(t, out)
    \/ RecordUpdate(t, out)
    \/ RecordProfile(t, out)
    \/ RecordRefetch(t, out)

InitVerification ==
  /\ InitClient
  /\ FixedBackend
  /\ settings = [proximity_radius_km |-> NoRadius,
                 proximity_alerts_enabled |-> TRUE]
  /\ lim = [notifs |-> 0, faults |-> 0, updates |-> 0, ticks |-> 0,
            world |-> 0, toggles |-> 0, accs |-> UsualAccuracy]

NextVerification ==
  \/ \E t \in VerifTabs : FailedRun(t)
  \/ VerifStep

SpecVerification == InitVerification /\ [][NextVerification]_vars

\* ---------------------------------------------------------------------
\* C21: one run of checkProximityAlerts
\* ---------------------------------------------------------------------
\* the candidates one check owes an alert by the three conditions: a
\* record of the list (every locations row has coordinates: lat and lng
\* are NOT NULL) within the radius whose last alert, if any, is at least
\* the cooldown old
OwedAlerts(list, pos) ==
  {b.user_id : b \in
     {x \in list :
        /\ haversineDistance(pos, x.lat) <= radiusKmOf(settings)
        /\ \/ lastNotified[x.user_id] = 0
           \/ now - lastNotified[x.user_id] >= COOLDOWN_MS}}

\* the candidates this step shows an alert for
AlertedNow == {a.user_id : a \in alerts' \ alerts}

\* this step alerts exactly for the set hit and records now for exactly
\* those candidates
AlertsExactly(hit) ==
  /\ AlertedNow = hit
  /\ \A o \in Owners :
       lastNotified'[o] = IF o \in hit THEN now ELSE lastNotified[o]

\* C21 as stated: in every check made with a known position and a
\* radius above 0, the alerts are exactly the owed ones
C21_AlertIffNearAndDue ==
  [][\A u \in upds : \A out \in {"ok", "error"} :
       (/\ LastSeenReturn(u, out)
        /\ u.cl.myPos # NoPos
        /\ radiusKmOf(settings) > 0)
       => AlertsExactly(OwedAlerts(u.cl.brothers, u.cl.myPos))]_vars

\* C21 amended: the same for the checks made while the viewer's alerts
\* are switched on; with the alerts switched off a check shows no alert
\* and records nothing
C21_AlertIffEnabledNearAndDue ==
  [][\A u \in upds : \A out \in {"ok", "error"} :
       (/\ LastSeenReturn(u, out)
        /\ u.cl.myPos # NoPos
        /\ radiusKmOf(settings) > 0)
       => IF settings.proximity_alerts_enabled
          THEN AlertsExactly(OwedAlerts(u.cl.brothers, u.cl.myPos))
          ELSE AlertsExactly({})]_vars

\* a check that alerted for one candidate within the radius and skipped
\* another one whose cooldown was not over
C21_Witness ==
  /\ lastCheck.src = "update"
  /\ lastCheck.pos # NoPos
  /\ lastCheck.emitted # {}
  /\ lastCheck.near \ lastCheck.emitted # {}
  /\ settings.proximity_alerts_enabled

\* ---------------------------------------------------------------------
\* C22: automatic acquisitions
\* ---------------------------------------------------------------------
\* a timer calls updateMyLocation: the interval, the 800 ms timeout of
\* the last effect, or a timeout armed on leaving stealth (lines 604, 655)
AutomaticAcquisition == MountTimerFire \/ IntervalTick \/ LateTimerFire

\* C22: a timer starts a location acquisition only while the viewer's
\* tracking is enabled and stealth is off
C22_AutomaticOnlyWhenTracking ==
  [][AutomaticAcquisition =>
       (myProfile.tracking_enabled /\ myRow.tracking_enabled
          /\ ~stealthMode)]_vars

\* ---------------------------------------------------------------------
\* C23: the Emergency entry of the navigation bar
\* ---------------------------------------------------------------------
\* BottomNav syncs with the stored count: on its interval or a route
\* change, and when it is mounted with the map view
NavSyncs == NavPoll \/ MountEffect

\* C23: at every sync the Emergency entry is shown iff the stored count
\* is above 0, and the stored count is the number of candidates shown
\* that are out of stealth and within the viewer's radius (0 with radius
\* 0, with no position, and with no map view showing candidates)
C23_EmergencyIffNearby ==
  [][NavSyncs =>
       /\ emergencyAvailable' = (nearbyStored > 0)
       /\ nearbyStored = nearbyBrothersCount]_vars

\* ---------------------------------------------------------------------
\* C24: acceptRequest
\* ---------------------------------------------------------------------
\* the rows of the table whose content this step changed, by id
ChangedRows ==
  {r \in friendRows : \A q \in friendRows' : q.id = r.id => q # r}

\* C24: a call of acceptRequest changes a row only if the row has the id
\* given, is addressed to the caller and is pending at the time, and then
\* only its status, to accepted; no row is added or removed; for a row
\* that is not pending or not addressed to the caller nothing changes and
\* the caller is told that the accept failed
C24_AcceptOnlyPendingAddressee ==
  [][\A u \in FriendUsers : \A id \in RowIds : \A out \in QueryOutcomes :
       acceptRequest(u, id, out) =>
         /\ {r.id : r \in friendRows'} = {r.id : r \in friendRows}
         /\ \A r \in ChangedRows :
              /\ r.id = id /\ r.addressee_id = u /\ r.status = "pending"
              /\ [r EXCEPT !.status = "accepted"] \in friendRows'
         /\ (\A r \in friendRows :
               r.id = id => (r.status # "pending" \/ r.addressee_id # u))
            => (ChangedRows = {} /\ told'[u] = "acceptFailed")]_vars

\* acceptRequest was called for a row that was no longer pending, and
\* told the caller so
C24_Witness ==
  /\ lastOp.kind = "accept"
  /\ told[lastOp.by] = "acceptFailed"
  /\ \E r \in lastOp.before : r.status # "pending"

\* ---------------------------------------------------------------------
\* C29: rejectRequest and cancelRequest
\* ---------------------------------------------------------------------
\* C29: a call of rejectRequest or cancelRequest changes pending rows
\* only; an accepted friendship is never turned into blocked by it
C29_BlockOnlyPending ==
  [][\A u \in FriendUsers : \A id \in RowIds : \A out \in QueryOutcomes :
       (rejectRequest(u, id, out) \/ cancelRequest(u, id, out)) =>
         \A r \in ChangedRows : r.status = "pending"]_vars

\* ---------------------------------------------------------------------
\* C30: sendRequest
\* ---------------------------------------------------------------------
\* at most one friendships row between two members
OneRowBetween ==
  \A a \in FriendUsers : \A b \in FriendUsers :
    Cardinality(RowsBetween(a, b)) <= 1

\* C30: there is at most one row per pair of members, and sendRequest
\* inserts a row only when the pair has none in either direction
C30_OneRowPerPair ==
  /\ []OneRowBetween
  /\ [][\A c \in sends :
         SendInsert(c, "ok") => RowsBetween(c.by, c.to) = {}]_vars

\* ---------------------------------------------------------------------
\* C25: the verification attempts
\* ---------------------------------------------------------------------
\* no recordFailedAttempt is under way
NoRecording == \A t \in VerifTabs : tabs[t].pc \in {"loading", "quiz"}

\* C25: at most 3 failed quiz runs; every failed run adds one to the
\* stored count; and once the count is 3 the row is locked, the profile is
\* in manual review and every page that loaded the row is blocked
C25_ThreeFailedAttempts ==
  /\ failedRuns <= maxAttempts
  /\ NoRecording => attemptRow.attempt_count = failedRuns
  /\ (NoRecording /\ attemptRow.attempt_count >= maxAttempts) =>
       /\ attemptRow.locked
       /\ verifStatus = "manual_review"

\* ---------------------------------------------------------------------
\* C26: after the map view is unmounted
\* ---------------------------------------------------------------------
\* C26: once the view is unmounted no debounce timer is armed and no
\* fetch starts
C26_QuietAfterUnmount ==
  /\ [](phase = "unmounted" => timers = 0)
  /\ [][phase = "unmounted" => fetchesStarted' = fetchesStarted]_vars

\* ---------------------------------------------------------------------
\* C27: one location update at a time
\* ---------------------------------------------------------------------
\* C27: while the view is mounted at most one updateMyLocation call is
\* under way, and isUpdatingLocation is true exactly while one is
C27_OneUpdateAtATime ==
  phase = "mounted" =>
    /\ Cardinality(upds) <= 1
    /\ isUpdatingLocation <=> (upds # {})

\* ---------------------------------------------------------------------
\* C28: a failed stealth toggle, and the switch against the stored value
\* ---------------------------------------------------------------------
\* the profiles update of a toggle fails: the switch is back at the value
\* it had before that toggle and no timeout for a location update is armed
FailedToggleUndone ==
  \A t \in toggles, out \in {"error", "throw"} :
    ToggleUpdateReturn(t, out) =>
      /\ stealthMode' = ~t.newValue
      /\ lateTimers' = lateTimers
      /\ mountTimer' => mountTimer

\* no toggle is under way and at least one was made: the switch shows the
\* stored stealth_mode
SwitchShowsStored ==
  (phase = "mounted" /\ togglesStarted > 0 /\ toggles = {}) =>
    stealthMode = myRow.stealth_mode

\* C28: a toggle whose profiles update fails puts the switch back and
\* schedules no location update, and once every toggle has completed the
\* switch equals the stealth_mode stored in the viewer's profile row
C28_ToggleRollback ==
  /\ [][FailedToggleUndone]_vars
  /\ []SwitchShowsStored

====
